---- MODULE Spec2Model ----
(***************************************************************************)
(* tap-mailchimp: the page loop, record retrieval and replication state of *)
(* the five Mailchimp streams (src/tap_mailchimp/client.py, streams.py,    *)
(* tap.py).  One sync run of one (stream, context) is a state machine:     *)
(* prepare a request, receive a response, yield the records of the page    *)
(* one by one, advance the paginator, and finalize the replication state   *)
(* once the paginator is finished.  A behaviour follows the successive     *)
(* runs of one stream over its contexts; the replication state of the      *)
(* other streams is carried along and never touched.                       *)
(* TreeSpec follows a full sync of a root stream and its children, ParSpec  *)
(* two runs of a child stream whose steps are interleaved, DriftSpec runs   *)
(* whose pages hold records without a primary key, and NormSpec             *)
(* post_process applied to a record on its own.                            *)
(***************************************************************************)
EXTENDS Integers, Sequences, FiniteSets, TLC

\* ------------------------------------------------------------ constants
PAGE_SIZE == 1000

\* Raw records the server returns over the pages of one run.
MaxRecords == 2
\* Sync runs in one behaviour.
MaxRuns == 2

\* Python's None, and JSON null once decoded.
None == "<None>"

\* Replication-key values are ISO-8601 strings; isoparse gives their order.
Timestamps == <<"2023-01-09", "2023-01-10", "2023-01-11">>

isoparse(s) == CHOOSE i \in 1..Len(Timestamps) : Timestamps[i] = s

\* config: "dc" is required, "start_date" is optional (tap.py).
DC == "us1"

StartDates == {None, Timestamps[2]}

\* ------------------------------------------------------------ streams
CampaignsStream ==
    [name |-> "campaigns", path |-> <<"/campaigns">>,
     response_key |-> "campaigns", primary_keys |-> <<"id">>,
     replication_key |-> None, parent |-> None,
     exclude_fields |-> <<"_links">>, is_sorted |-> FALSE]

\* reports_email_activity declared without its parent_stream_type.
ReportsEmailActivityRoot ==
    [name |-> "reports_email_activity",
     path |-> <<"/reports/", "{campaign_id}", "/email-activity">>,
     response_key |-> "emails",
     primary_keys |-> <<"campaign_id", "action", "email_id", "timestamp">>,
     replication_key |-> "timestamp", parent |-> None,
     exclude_fields |-> <<"_links">>, is_sorted |-> FALSE]

ReportsEmailActivity ==
    [name |-> "reports_email_activity",
     path |-> <<"/reports/", "{campaign_id}", "/email-activity">>,
     response_key |-> "emails",
     primary_keys |-> <<"campaign_id", "action", "email_id", "timestamp">>,
     replication_key |-> "timestamp", parent |-> "campaigns",
     exclude_fields |-> <<"_links">>, is_sorted |-> FALSE]

ListsStream ==
    [name |-> "lists", path |-> <<"/lists">>,
     response_key |-> "lists", primary_keys |-> <<"id">>,
     replication_key |-> None, parent |-> None,
     exclude_fields |-> <<"_links">>, is_sorted |-> FALSE]

ListsMembersStream ==
    [name |-> "lists_members",
     path |-> <<"/lists/", "{list_id}", "/members">>,
     response_key |-> "members", primary_keys |-> <<"id", "list_id">>,
     replication_key |-> "last_changed", parent |-> "lists",
     exclude_fields |-> <<"_links", "merge_fields", "location">>,
     is_sorted |-> FALSE]

ReportsUnsubscribes ==
    [name |-> "reports_unsubscribes",
     path |-> <<"/reports/", "{campaign_id}", "/unsubscribed">>,
     response_key |-> "unsubscribes",
     primary_keys |-> <<"campaign_id", "email_id">>,
     replication_key |-> "timestamp", parent |-> "campaigns",
     exclude_fields |-> <<"_links">>, is_sorted |-> FALSE]

discover_streams ==
    <<CampaignsStream, ReportsEmailActivity, ReportsUnsubscribes,
      ListsStream, ListsMembersStream>>

StreamNames == {discover_streams[i].name : i \in 1..Len(discover_streams)}

Stream(n) ==
    discover_streams[CHOOSE i \in 1..Len(discover_streams) :
                        discover_streams[i].name = n]

\* replication_method: FULL_TABLE where declared, INCREMENTAL for the streams
\* that declare a replication_key.
IncrementalStreams == {n \in StreamNames : Stream(n).replication_key # None}

ChildStreams == {n \in StreamNames : Stream(n).parent # None}

\* The streams that declare n as their parent_stream_type, as discovered.
child_streams(n) ==
    SelectSeq([i \in 1..Len(discover_streams) |-> discover_streams[i].name],
              LAMBDA c : Stream(c).parent = n)

\* ------------------------------------------------------------ server data
\* The records the API can return for each stream.  "" is the API's way
\* of writing an absent value.
CampaignRecords == {[id |-> "a", title |-> ""], [id |-> "b", title |-> "Sale"]}

ListRecords == {[id |-> "a", name |-> ""], [id |-> "b", name |-> "News"]}

MemberRecords ==
    {[id |-> "m1", last_changed |-> Timestamps[1], unsubscribe_reason |-> ""],
     [id |-> "m2", last_changed |-> Timestamps[2], unsubscribe_reason |-> "N/A"],
     [id |-> "m3", last_changed |-> Timestamps[3], unsubscribe_reason |-> ""]}

UnsubscribeRecords ==
    {[email_id |-> "e1", timestamp |-> Timestamps[1], reason |-> ""],
     [email_id |-> "e2", timestamp |-> Timestamps[2], reason |-> "spam"],
     [email_id |-> "e3", timestamp |-> Timestamps[3], reason |-> ""]}

EmailRecords ==
    {[email_id |-> "e1", email_address |-> "", activity |-> <<>>],
     [email_id |-> "e2", email_address |-> "x@y.z", activity |->
        <<[action |-> "open", timestamp |-> Timestamps[2]]>>],
     [email_id |-> "e3", email_address |-> "", activity |->
        <<[action |-> "open", timestamp |-> Timestamps[3]],
          [action |-> "click", timestamp |-> Timestamps[1]]>>]}

RawRecords(n) ==
    CASE n = "campaigns" -> CampaignRecords
      [] n = "lists" -> ListRecords
      [] n = "lists_members" -> MemberRecords
      [] n = "reports_unsubscribes" -> UnsubscribeRecords
      [] n = "reports_email_activity" -> EmailRecords

SeqsUpTo(S, n) == UNION {[1..k -> S] : k \in 0..n}

\* ------------------------------------------------------------ client.py
RECURSIVE Join(_, _)
Join(parts, sep) ==
    IF parts = <<>> THEN ""
    ELSE IF Len(parts) = 1 THEN parts[1]
    ELSE parts[1] \o sep \o Join(Tail(parts), sep)

url_base == "https://" \o DC \o ".api.mailchimp.com/3.0"

\* The request URL: url_base + path, each "{key}" of the path replaced by the
\* context's value for key.
get_url(n, context) ==
    LET path == Stream(n).path
        fill(tok) ==
            IF Stream(n).parent # None
               /\ \E k \in DOMAIN context : tok = "{" \o k \o "}"
            THEN context[CHOOSE k \in DOMAIN context : tok = "{" \o k \o "}"]
            ELSE tok
    IN url_base \o Join([i \in 1..Len(path) |-> fill(path[i])], "")

\* A decoded JSON body is a function from its field names to tagged values.
JsonArray(items) == [type |-> "array", items |-> items]

JsonNull == [type |-> "null"]

JsonNumber(v) == [type |-> "number", value |-> v]

\* A body with `value` under `key` beside the fields of `extra`.
Body(key, value, extra) ==
    [k \in {key} \cup DOMAIN extra |-> IF k = key THEN value ELSE extra[k]]

EmptyBody == [k \in {} |-> JsonNull]

\* has_more as a paginator driven by the body's next_page field would be.
has_more_next_page(response_key, body) ==
    [error |-> None, value |-> IF "next_page" \in DOMAIN body THEN 1 ELSE 0]

\* has_more counting the records of the response that give a record to
\* emit: those whose 'activity' is not empty, where there is one.
has_more_emitting(response_key, body) ==
    IF response_key \notin DOMAIN body THEN [error |-> "KeyError", value |-> 0]
    ELSE IF body[response_key].type # "array"
         THEN [error |-> "TypeError", value |-> 0]
    ELSE LET Emits(r) == "activity" \in DOMAIN r => r.activity # <<>>
         IN [error |-> None,
             value |-> Len(SelectSeq(body[response_key].items, Emits))]

\* MailchimpPaginator.has_more: len(response.json()[self.response_key]).
\* A missing key raises KeyError and null has no len().
has_more(response_key, body) ==
    IF response_key \notin DOMAIN body THEN [error |-> "KeyError", value |-> 0]
    ELSE IF body[response_key].type # "array"
         THEN [error |-> "TypeError", value |-> 0]
    ELSE [error |-> None, value |-> Len(body[response_key].items)]

\* MailchimpPaginator.__init__: start_value = 0, page_size = PAGE_SIZE.
MailchimpPaginator ==
    [value |-> 0, page_size |-> PAGE_SIZE, finished |-> FALSE]

\* get_next counting pages instead of records.
get_next_page_number(paginator) == paginator.value + 1

\* BaseOffsetPaginator.get_next.
get_next(paginator) == paginator.value + paginator.page_size

\* The paginator's advance(response) with this has_more: not truthy finishes
\* the paginator, truthy moves it to the next offset.
advance(paginator, response_key, body) ==
    LET more == has_more(response_key, body)
    IN IF more.error # None THEN [error |-> more.error, paginator |-> paginator]
       ELSE IF more.value = 0
            THEN [error |-> None,
                  paginator |-> [paginator EXCEPT !.finished = TRUE]]
       ELSE [error |-> None,
             paginator |-> [paginator EXCEPT !.value = get_next(paginator)]]

\* MailchimpStream.get_new_paginator.
get_new_paginator(n) == MailchimpPaginator

\* parse_response with a record path that starts at the second element.
parse_response_skip_first(n, body) ==
    LET key == Stream(n).response_key
    IN IF key \in DOMAIN body /\ body[key].type = "array"
          /\ body[key].items # <<>>
       THEN Tail(body[key].items) ELSE <<>>

\* MailchimpStream.parse_response: the matches of "$.<response_key>[*]".
parse_response(n, body) ==
    LET key == Stream(n).response_key
    IN IF key \in DOMAIN body /\ body[key].type = "array"
       THEN body[key].items ELSE <<>>

\* get_url_params testing the token for None instead of for falsy: offset 0
\* is sent too.
base_url_params_offset_zero(n, context, next_page_token) ==
    LET d == Stream(n)
        fields == [i \in 1..Len(d.exclude_fields) |->
                      d.response_key \o "." \o d.exclude_fields[i]]
        keys == {"offset", "count"}
                \cup (IF Len(d.exclude_fields) > 0 THEN {"exclude_fields"} ELSE {})
    IN [k \in keys |->
          CASE k = "offset" -> next_page_token
            [] k = "exclude_fields" -> Join(fields, ",")
            [] k = "count" -> PAGE_SIZE]

\* MailchimpStream.get_url_params.
base_url_params(n, context, next_page_token) ==
    LET d == Stream(n)
        fields == [i \in 1..Len(d.exclude_fields) |->
                      d.response_key \o "." \o d.exclude_fields[i]]
        keys == (IF next_page_token # 0 THEN {"offset"} ELSE {})
                \cup (IF Len(d.exclude_fields) > 0 THEN {"exclude_fields"} ELSE {})
                \cup {"count"}
    IN [k \in keys |->
          CASE k = "offset" -> next_page_token
            [] k = "exclude_fields" -> Join(fields, ",")
            [] k = "count" -> PAGE_SIZE]

\* post_process leaving the fields out whose value is "".
post_process_drop(row) ==
    [k \in {j \in DOMAIN row : j = "activity" \/ row[j] # ""} |-> row[k]]

\* MailchimpStream.post_process: "" becomes None, key by key.  A list
\* (the 'activity' field) is never equal to "".
post_process(row) ==
    [k \in DOMAIN row |->
        IF k # "activity" /\ row[k] = "" THEN None ELSE row[k]]

\* ------------------------------------------------------------ streams.py
\* {**a, **b}
Merge(a, b) ==
    [k \in DOMAIN a \cup DOMAIN b |-> IF k \in DOMAIN b THEN b[k] ELSE a[k]]

\* dict.pop(key): the dict without key.
Without(row, key) == [k \in DOMAIN row \ {key} |-> row[k]]

\* get_child_context handing the whole parent record down.
get_child_context_whole_record(n, record, context) ==
    CASE n = "campaigns" -> Merge(record, [campaign_id |-> record.id])
      [] n = "lists" -> Merge(record, [list_id |-> record.id])

\* CampaignsStream.get_child_context, ListsStream.get_child_context.
get_child_context(n, record, context) ==
    CASE n = "campaigns" -> [campaign_id |-> record.id]
      [] n = "lists" -> [list_id |-> record.id]

\* record['id'] of get_child_context raises KeyError on a record without id.
get_child_context_error(n, record) ==
    IF "id" \in DOMAIN record THEN None ELSE "KeyError"

\* The contexts a stream can be run with: None for a root stream, the
\* contexts of its parent's records for a child stream.
Contexts(n) ==
    IF Stream(n).parent = None THEN {None}
    ELSE {get_child_context(Stream(n).parent, r, None) :
             r \in RawRecords(Stream(n).parent)}

\* get_url_params of the three incremental streams: the base parameters plus
\* 'since' / 'since_last_changed' = get_starting_timestamp(context).
get_url_params(n, context, next_page_token, starting) ==
    LET params == base_url_params(n, context, next_page_token)
    IN CASE n \in {"reports_email_activity", "reports_unsubscribes"} ->
              Merge(params, [since |-> starting])
         [] n = "lists_members" ->
              Merge(params, [since_last_changed |-> starting])
         [] OTHER -> params

\* The body of each get_records for one record of request_records: what it
\* yields for that record, or the exception it raises.

\* get_records of reports_email_activity reading 'activity' without
\* removing it from the record.
email_activity_get_records_keep(record, starting) ==
    LET transformed_record == post_process(record)
        activities == transformed_record.activity
    IN [error |-> None,
        out |-> [i \in 1..Len(activities) |->
                    Merge(transformed_record, activities[i])]]

\* ReportsEmailActivity.get_records
email_activity_get_records(record, starting) ==
    LET transformed_record == post_process(record)
        activities == transformed_record.activity
        rest == Without(transformed_record, "activity")
    IN [error |-> None,
        out |-> [i \in 1..Len(activities) |-> Merge(rest, activities[i])]]

\* get_records of reports_unsubscribes with the comparison turned round.
unsubscribes_get_records_reversed(record, starting) ==
    IF starting = None THEN [error |-> "TypeError", out |-> <<>>]
    ELSE IF isoparse(record.timestamp) <= isoparse(starting)
         THEN [error |-> None, out |-> <<record>>]
    ELSE [error |-> None, out |-> <<>>]

\* get_records of reports_unsubscribes without its filter.
unsubscribes_get_records_unfiltered(record, starting) ==
    IF starting = None THEN [error |-> "TypeError", out |-> <<>>]
    ELSE [error |-> None, out |-> <<record>>]

\* ReportsUnsubscribes.get_records; datetime >= None raises TypeError.
unsubscribes_get_records(record, starting) ==
    LET transformed_record == post_process(record)
    IN IF starting = None THEN [error |-> "TypeError", out |-> <<>>]
       ELSE IF isoparse(record.timestamp) >= isoparse(starting)
            THEN [error |-> None, out |-> <<record>>]
       ELSE [error |-> None, out |-> <<>>]

\* The get_records the other streams inherit: post_process of each record.
default_get_records(record, starting) ==
    [error |-> None, out |-> <<post_process(record)>>]

get_records(n, record, starting) ==
    CASE n = "reports_email_activity" ->
           email_activity_get_records(record, starting)
      [] n = "reports_unsubscribes" ->
           unsubscribes_get_records(record, starting)
      [] OTHER -> default_get_records(record, starting)

\* ------------------------------------------------------------ replication state
\* The later of two replication-key values, None being "no value".
LaterOf(a, b) ==
    IF a = None THEN b
    ELSE IF b = None THEN a
    ELSE IF isoparse(a) >= isoparse(b) THEN a ELSE b

\* The starting value of a run: the later of the configured start_date and
\* the bookmark stored for the context.
starting_value(configured, bookmark) == LaterOf(configured, bookmark)

\* One emitted record's effect on the replication state of its context: a
\* sorted stream moves the bookmark itself (and refuses a record older than
\* it), an unsorted stream keeps the maximum seen in its progress marker.
increment_state(n, st, latest_record) ==
    LET new == latest_record[Stream(n).replication_key]
        old == IF Stream(n).is_sorted THEN st.replication_key_value
               ELSE st.progress_markers
        ok == old = None \/ isoparse(new) >= isoparse(old)
    IN IF ~ok
       THEN [st EXCEPT !.error =
                IF Stream(n).is_sorted THEN "InvalidStreamSortException" ELSE @]
       ELSE IF Stream(n).is_sorted
            THEN [st EXCEPT !.replication_key_value = new]
       ELSE [st EXCEPT !.progress_markers = new]

RECURSIVE increment_all(_, _, _)
increment_all(n, st, records) ==
    IF records = <<>> \/ st.error # None \/ n \notin IncrementalStreams THEN st
    ELSE increment_all(n, increment_state(n, st, Head(records)), Tail(records))

\* The end of a completed run: the progress marker becomes the bookmark.
finalize_state(st) ==
    IF st.progress_markers = None THEN st
    ELSE [st EXCEPT !.replication_key_value = st.progress_markers,
                    !.progress_markers = None]

\* ------------------------------------------------------------ state
VARIABLES
    start_date,     \* config["start_date"], None when not configured
    bookmarks,      \* replication_key_value per incremental stream and context
    runs,           \* sync runs started
    stream,         \* name of the stream whose runs the behaviour follows
    context,        \* its context: None for a root stream
    pc,             \* position of the run
    paginator,      \* the run's MailchimpPaginator
    response,       \* the decoded body of the last response
    pending,        \* records of the last response not yet retrieved
    starting,       \* starting_replication_value of the run
    progress,       \* progress marker of the run
    requests,       \* requests sent in the run, in order
    pages,          \* the record lists of the bodies pages in the run
    emitted,        \* records yielded by get_records in the run, in order
    child_contexts, \* child contexts derived from the emitted records
    error,          \* the exception that ended the run, None if none
    queue,          \* child runs of a full sync still to be made, in order
    child_runs,     \* child runs of a full sync made so far, in order
    other,          \* the locals of a second run, suspended; <<>> if none
    row,            \* a record handed to post_process, <<>> if none
    applied         \* the results of post_process applied to it, again and again

vars ==
    <<start_date, bookmarks, runs, stream, context, pc, paginator, response,
      pending, starting, progress, requests, pages, emitted,
      child_contexts, error, queue, child_runs, other, row, applied>>

\* The state outside the page loop of the run in hand.
outside == <<queue, child_runs, other, row, applied>>

run_vars ==
    <<stream, context, paginator, response, pending, starting, progress,
      requests, pages, emitted, child_contexts>>

\* The fields a body may carry beside response_key: none, or a next_page.
ExtraFields == {EmptyBody, [next_page |-> JsonNumber(2 * PAGE_SIZE)]}

\* A handler that takes a failed request for the end of the records.
on_request_error_swallowed == "finalize"

\* What no exception handler around request_records leaves a failed request
\* to do: end the run with the exception.
on_request_error == "failed"

\* The list a body holds under key, empty when it holds none.
ItemsOf(key, body) ==
    IF key \in DOMAIN body /\ body[key].type = "array"
    THEN body[key].items ELSE <<>>

RECURSIVE Flatten(_)
Flatten(lists) ==
    IF lists = <<>> THEN <<>> ELSE Head(lists) \o Flatten(Tail(lists))

\* A starting timestamp that follows the records emitted so far in the run.
get_starting_timestamp_live == LaterOf(starting, progress)

\* self.get_starting_timestamp(context): the starting value of the run.
get_starting_timestamp == starting

Init ==
    /\ start_date \in StartDates
    /\ bookmarks = [n \in IncrementalStreams |-> [c \in Contexts(n) |-> None]]
    /\ runs = 0
    /\ stream \in StreamNames
    /\ context = None
    /\ pc = "idle"
    /\ paginator = MailchimpPaginator
    /\ response = EmptyBody
    /\ pending = <<>>
    /\ starting = None
    /\ progress = None
    /\ requests = <<>>
    /\ pages = <<>>
    /\ emitted = <<>>
    /\ child_contexts = <<>>
    /\ error = None
    /\ queue = <<>>
    /\ child_runs = <<>>
    /\ other = <<>>
    /\ row = <<>>
    /\ applied = <<>>

\* A sync run of the stream with context c starts: a new paginator, the
\* starting value resolved, the progress markers of earlier runs cleared.
StartSync(c) ==
    /\ pc \in {"idle", "done", "failed", "cancelled", "error"}
    /\ runs < MaxRuns
    /\ runs' = runs + 1
    /\ UNCHANGED stream
    /\ context' = c
    /\ paginator' = get_new_paginator(stream)
    /\ starting' = IF stream \in IncrementalStreams
                   THEN starting_value(start_date, bookmarks[stream][c])
                   ELSE None
    /\ progress' = None
    /\ response' = EmptyBody
    /\ pending' = <<>>
    /\ requests' = <<>>
    /\ pages' = <<>>
    /\ emitted' = <<>>
    /\ child_contexts' = <<>>
    /\ error' = None
    /\ pc' = "request"
    /\ UNCHANGED <<start_date, bookmarks>>
    /\ UNCHANGED outside

\* An exception leaves the run: the generator and its locals are gone, the
\* stored bookmarks and the progress marker stay as they are.
Raise(how, exception) ==
    /\ pc' = how
    /\ error' = exception
    /\ paginator' = MailchimpPaginator
    /\ response' = EmptyBody
    /\ pending' = <<>>
    /\ starting' = None
    /\ requests' = <<>>
    /\ pages' = <<>>
    /\ emitted' = <<>>
    /\ child_contexts' = <<>>
    /\ UNCHANGED <<start_date, runs, stream, context>>

\* request_records: prepare the request for the paginator's current value.
PrepareRequest ==
    /\ pc = "request"
    /\ requests' = Append(requests,
          [url |-> get_url(stream, context),
           token |-> paginator.value,
           params |-> get_url_params(stream, context, paginator.value,
                                     get_starting_timestamp)])
    /\ pc' = "wait"
    /\ UNCHANGED <<start_date, bookmarks, runs, stream, context, paginator,
                   response, pending, starting, progress, pages, emitted,
                   child_contexts, error>>
    /\ UNCHANGED outside

Receive(body) ==
    /\ response' = body
    /\ pages' = Append(pages, ItemsOf(Stream(stream).response_key, body))
    /\ pending' = parse_response(stream, body)
    /\ pc' = "records"
    /\ UNCHANGED <<start_date, bookmarks, runs, stream, context, paginator,
                   starting, progress, requests, emitted, child_contexts, error>>
    /\ UNCHANGED outside

\* The server answers with a list of some of these records under
\* response_key, the run receiving at most limit records in all.
ReceiveFrom(records, limit, extras) ==
    /\ pc = "wait"
    /\ \E extra \in extras :
       \E items \in SeqsUpTo(records, limit - Len(Flatten(pages))) :
          Receive(Body(Stream(stream).response_key, JsonArray(items), extra))

ReceivePage == ReceiveFrom(RawRecords(stream), MaxRecords, ExtraFields)

\* The server answers with a body without response_key, or with null there.
ReceiveMalformed ==
    /\ pc = "wait"
    /\ \/ Receive(EmptyBody)
       \/ Receive(Body(Stream(stream).response_key, JsonNull, EmptyBody))

\* The request fails in transport.
RequestFails ==
    /\ pc = "wait"
    /\ IF on_request_error = "failed"
       THEN Raise("failed", "ConnectionError") /\ UNCHANGED <<bookmarks, progress>>
       ELSE /\ pc' = on_request_error
            /\ UNCHANGED <<start_date, bookmarks, runs, run_vars, error>>
    /\ UNCHANGED outside

\* get_records retrieves the next record of the page and yields what it
\* makes of it; each yielded record gives a child context (parent streams)
\* and advances the replication state (incremental streams).
NextRecord ==
    /\ pc = "records"
    /\ pending # <<>>
    /\ LET res == get_records(stream, Head(pending), get_starting_timestamp)
           st0 == [replication_key_value |->
                      IF stream \in IncrementalStreams
                      THEN bookmarks[stream][context] ELSE None,
                   progress_markers |-> progress, error |-> None]
           st == increment_all(stream, st0, res.out)
           err == IF res.error # None THEN res.error
                  ELSE IF child_streams(stream) # <<>>
                          /\ \E i \in 1..Len(res.out) :
                                get_child_context_error(stream, res.out[i]) # None
                       THEN "KeyError"
                  ELSE st.error
           bm == IF stream \in IncrementalStreams
                 THEN [bookmarks EXCEPT ![stream][context] = st.replication_key_value]
                 ELSE bookmarks
       IN IF err # None
          THEN Raise("error", err) /\ bookmarks' = bm /\ UNCHANGED progress
          ELSE /\ pending' = Tail(pending)
               /\ emitted' = emitted \o res.out
               /\ child_contexts' =
                     IF child_streams(stream) = <<>> THEN child_contexts
                     ELSE child_contexts \o
                          [i \in 1..Len(res.out) |->
                              get_child_context(stream, res.out[i], context)]
               /\ progress' = st.progress_markers
               /\ bookmarks' = bm
               /\ UNCHANGED <<start_date, runs, stream, context, paginator,
                              response, starting, requests, pages, pc, error>>
    /\ UNCHANGED outside

\* The page is exhausted: paginator.advance(response).
AdvancePaginator ==
    /\ pc = "records"
    /\ pending = <<>>
    /\ LET a == advance(paginator, Stream(stream).response_key, response)
       IN IF a.error # None
          THEN Raise("error", a.error) /\ UNCHANGED progress
          ELSE /\ paginator' = a.paginator
               /\ pc' = IF a.paginator.finished THEN "finalize" ELSE "request"
               /\ response' = EmptyBody
               /\ UNCHANGED <<start_date, runs, stream, context, pending,
                              starting, progress, requests, pages, emitted,
                              child_contexts, error>>
    /\ UNCHANGED bookmarks
    /\ UNCHANGED outside

\* The page loop has ended: the replication state of the context is finalized.
FinalizeState ==
    /\ pc = "finalize"
    /\ LET st == finalize_state(
                    [replication_key_value |->
                        IF stream \in IncrementalStreams
                        THEN bookmarks[stream][context] ELSE None,
                     progress_markers |-> progress, error |-> None])
       IN /\ bookmarks' =
                IF stream \in IncrementalStreams
                THEN [bookmarks EXCEPT ![stream][context] = st.replication_key_value]
                ELSE bookmarks
          /\ progress' = st.progress_markers
    /\ pc' = "done"
    /\ UNCHANGED <<start_date, runs, stream, context, paginator, response,
                   pending, starting, requests, pages, emitted,
                   child_contexts, error>>
    /\ UNCHANGED outside

\* The run is cancelled between two of its steps.
Cancel ==
    /\ pc \in {"request", "wait", "records", "finalize"}
    /\ Raise("cancelled", "Cancelled")
    /\ UNCHANGED <<bookmarks, progress>>
    /\ UNCHANGED outside

Next ==
    \/ \E c \in Contexts(stream) : StartSync(c)
    \/ PrepareRequest
    \/ ReceivePage
    \/ ReceiveMalformed
    \/ RequestFails
    \/ NextRecord
    \/ AdvancePaginator
    \/ FinalizeState
    \/ Cancel

Spec == Init /\ [][Next]_vars

\* ------------------------------------------------------------ full sync
\* A full sync of a root stream and its children: the root stream is run
\* with the empty context, and each child stream is run with the context of
\* each record the root stream emitted.
RootStreams == StreamNames \ ChildStreams

\* The child runs due for a sequence of derived contexts: for each context
\* in turn, one run of each child stream.
child_jobs(children, contexts) ==
    [k \in 1..(Len(contexts) * Len(children)) |->
        [stream |-> children[((k - 1) % Len(children)) + 1],
         context |-> contexts[((k - 1) \div Len(children)) + 1]]]

\* A whole run over the records of its pages: get_records record by record,
\* each yielded record advancing the replication state, until the records
\* end or an exception leaves the run.
RECURSIVE sync_records(_, _, _, _)
sync_records(n, st, records, start) ==
    IF records = <<>> \/ st.error # None THEN st
    ELSE LET res == get_records(n, Head(records), start)
         IN IF res.error # None THEN [st EXCEPT !.error = res.error]
            ELSE sync_records(n, increment_all(n, st, res.out),
                              Tail(records), start)

TreeInit ==
    /\ Init
    /\ stream \in RootStreams

\* The root stream is run once, with the empty context.
SyncRoot ==
    /\ pc = "idle"
    /\ StartSync(None)

\* The root run is complete: its derived contexts become the child runs due.
ScheduleChildren ==
    /\ pc = "done"
    /\ stream \in RootStreams
    /\ queue' = child_jobs(child_streams(stream), child_contexts)
    /\ pc' = "children"
    /\ UNCHANGED <<start_date, bookmarks, runs, run_vars, error, child_runs,
                   other, row, applied>>

\* The next child run due is made, from its first request to the
\* finalization of its replication state, over the records the server holds
\* for its context.
SyncChild ==
    /\ pc = "children"
    /\ queue # <<>>
    /\ LET job == Head(queue)
           bookmark == bookmarks[job.stream][job.context]
           start == starting_value(start_date, bookmark)
       IN \E items \in SeqsUpTo(RawRecords(job.stream), MaxRecords) :
             LET st == sync_records(job.stream,
                          [replication_key_value |-> bookmark,
                           progress_markers |-> None, error |-> None],
                          items, start)
             IN IF st.error # None
                THEN /\ pc' = "error"
                     /\ error' = st.error
                     /\ UNCHANGED <<queue, bookmarks>>
                ELSE /\ queue' = Tail(queue)
                     /\ bookmarks' =
                           [bookmarks EXCEPT ![job.stream][job.context] =
                               finalize_state(st).replication_key_value]
                     /\ UNCHANGED <<pc, error>>
    /\ child_runs' = Append(child_runs, Head(queue))
    /\ UNCHANGED <<start_date, runs, run_vars, other, row, applied>>

\* A request of the next child run due fails: the sync ends with the error.
SyncChildFails ==
    /\ pc = "children"
    /\ queue # <<>>
    /\ child_runs' = Append(child_runs, Head(queue))
    /\ pc' = on_request_error
    /\ error' = "ConnectionError"
    /\ UNCHANGED <<start_date, bookmarks, runs, run_vars, queue, other,
                   row, applied>>

TreeNext ==
    \/ SyncRoot
    \/ PrepareRequest
    \/ ReceivePage
    \/ ReceiveMalformed
    \/ RequestFails
    \/ NextRecord
    \/ AdvancePaginator
    \/ FinalizeState
    \/ Cancel
    \/ ScheduleChildren
    \/ SyncChild
    \/ SyncChildFails

TreeSpec == TreeInit /\ [][TreeNext]_vars

\* ------------------------------------------------------------ two runs
\* Two runs of one child stream for two contexts, their page-loop steps
\* interleaved in any order: one run is in hand, the other is suspended
\* with its locals and is taken up again by Switch.

\* Raw records the server returns over the pages of each of the two runs.
ParMaxRecords == 1

\* One paginator kept on the stream and handed to every run.
paginator_per_stream == FALSE

\* get_new_paginator builds a MailchimpPaginator at each call, so that each
\* run of request_records has a paginator of its own.
paginator_per_run == TRUE

\* The locals of the run in hand.
Locals ==
    [context |-> context, pc |-> pc, paginator |-> paginator,
     response |-> response, pending |-> pending, starting |-> starting,
     progress |-> progress, requests |-> requests, pages |-> pages,
     emitted |-> emitted, error |-> error]

\* The context of stream n derived from the parent record with this id.
ContextOf(n, id) == get_child_context(Stream(n).parent, [id |-> id], None)

\* The bookmarks stored before the two runs: one for the first context of
\* the stream, none for the second.
ParBookmarks(n) ==
    [m \in IncrementalStreams |-> [c \in Contexts(m) |->
        IF m = n /\ c = ContextOf(n, "a") THEN Timestamps[3] ELSE None]]

ParInit ==
    /\ start_date \in StartDates
    /\ stream \in ChildStreams
    /\ bookmarks = ParBookmarks(stream)
    /\ runs = 0
    /\ context = ContextOf(stream, "a")
    /\ pc = "idle"
    /\ paginator = MailchimpPaginator
    /\ response = EmptyBody
    /\ pending = <<>>
    /\ starting = None
    /\ progress = None
    /\ requests = <<>>
    /\ pages = <<>>
    /\ emitted = <<>>
    /\ child_contexts = <<>>
    /\ error = None
    /\ queue = <<>>
    /\ child_runs = <<>>
    /\ other = [context |-> ContextOf(stream, "b"), pc |-> "idle",
                paginator |-> MailchimpPaginator, response |-> EmptyBody,
                pending |-> <<>>, starting |-> None, progress |-> None,
                requests |-> <<>>, pages |-> <<>>, emitted |-> <<>>,
                error |-> None]
    /\ row = <<>>
    /\ applied = <<>>

\* The run in hand starts, for its context.
ParStart ==
    /\ pc = "idle"
    /\ StartSync(context)

ParReceivePage == ReceiveFrom(RawRecords(stream), ParMaxRecords, {EmptyBody})

\* The run in hand is suspended between two of its steps and the other run
\* is taken up where it was left.
Switch ==
    /\ other # <<>>
    /\ other' = Locals
    /\ context' = other.context
    /\ pc' = other.pc
    /\ paginator' = IF paginator_per_run THEN other.paginator ELSE paginator
    /\ response' = other.response
    /\ pending' = other.pending
    /\ starting' = other.starting
    /\ progress' = other.progress
    /\ requests' = other.requests
    /\ pages' = other.pages
    /\ emitted' = other.emitted
    /\ error' = other.error
    /\ UNCHANGED <<start_date, bookmarks, runs, stream, child_contexts,
                   queue, child_runs, row, applied>>

ParNext ==
    \/ ParStart
    \/ PrepareRequest
    \/ ParReceivePage
    \/ NextRecord
    \/ AdvancePaginator
    \/ FinalizeState
    \/ Switch

ParSpec == ParInit /\ [][ParNext]_vars

\* ------------------------------------------------------------ schema drift
\* Records the server may return that lack a field the stream declares
\* among its primary_keys: a record without id, without email_id, an
\* activity item without action.
DriftedRecords(n) ==
    CASE n = "campaigns" -> {[title |-> "Promo"]}
      [] n = "lists" -> {[name |-> "Promo"]}
      [] n = "lists_members" ->
           {[last_changed |-> Timestamps[2], unsubscribe_reason |-> ""]}
      [] n = "reports_unsubscribes" ->
           {[timestamp |-> Timestamps[3], reason |-> "spam"]}
      [] n = "reports_email_activity" ->
           {[email_address |-> "x@y.z", activity |->
               <<[action |-> "open", timestamp |-> Timestamps[2]]>>],
            [email_id |-> "e2", email_address |-> "x@y.z", activity |->
               <<[timestamp |-> Timestamps[3]]>>]}

\* The server answers with a list in which such records may stand.
ReceiveDrifted ==
    ReceiveFrom(RawRecords(stream) \cup DriftedRecords(stream), MaxRecords,
                {EmptyBody})

DriftNext ==
    \/ \E c \in Contexts(stream) : StartSync(c)
    \/ PrepareRequest
    \/ ReceiveDrifted
    \/ RequestFails
    \/ NextRecord
    \/ AdvancePaginator
    \/ FinalizeState
    \/ Cancel

DriftSpec == Init /\ [][DriftNext]_vars

\* ------------------------------------------------------------ post_process alone
\* post_process applied to a record, and again to what it returned.
MaxApplications == 2

\* Records of scalar fields: each of id and reason absent, "", a text or
\* null.
ScalarRows == UNION {[K -> {"", "x", None}] : K \in SUBSET {"id", "reason"}}

\* Records of a list field: 'activity' absent, empty, or holding an item
\* with an empty string of its own.
ListRows == {EmptyBody, [activity |-> <<>>], [activity |-> <<[action |-> ""]>>]}

Rows == {Merge(f, g) : f \in ScalarRows, g \in ListRows}

NormInit ==
    /\ start_date = None
    /\ bookmarks = [n \in IncrementalStreams |-> [c \in Contexts(n) |-> None]]
    /\ runs = 0
    /\ stream = "campaigns"
    /\ context = None
    /\ pc = "idle"
    /\ paginator = MailchimpPaginator
    /\ response = EmptyBody
    /\ pending = <<>>
    /\ starting = None
    /\ progress = None
    /\ requests = <<>>
    /\ pages = <<>>
    /\ emitted = <<>>
    /\ child_contexts = <<>>
    /\ error = None
    /\ queue = <<>>
    /\ child_runs = <<>>
    /\ other = <<>>
    /\ row \in Rows
    /\ applied = <<>>

\* post_process is applied to the record, or to its own last result.
Normalize ==
    /\ Len(applied) < MaxApplications
    /\ applied' = Append(applied,
          post_process(IF applied = <<>> THEN row ELSE applied[Len(applied)]))
    /\ UNCHANGED <<start_date, bookmarks, runs, run_vars, pc, error, queue,
                   child_runs, other, row>>

NormNext == Normalize

NormSpec == NormInit /\ [][NormNext]_vars

\* ------------------------------------------------------------ properties
\* Pages of the run whose paginator.advance has been taken.
Decided == IF pc = "records" THEN Len(pages) - 1 ELSE Len(pages)

\* After page i the loop went on: a further request was sent or is next.
Continued(i) == i < Len(requests) \/ (i = Len(requests) /\ pc = "request")

\* The offset a request asks the server for (the API's default is 0).
RequestedOffset(req) ==
    IF "offset" \in DOMAIN req.params THEN req.params.offset ELSE 0

\* C1: after each response the page loop goes on to a further request if
\* and only if the list under response_key in that response is non-empty,
\* whatever next_page field the response carries.
C1_ContinueIffNonEmpty ==
    \A i \in 1..Decided : Continued(i) <=> pages[i] # <<>>

C1_Witness ==
    /\ pc = "finalize"
    /\ Len(requests) = 2
    /\ pages[1] # <<>>
    /\ pages[2] = <<>>

\* C2: the offsets requested in a run are 0, 1000, 2000, ... whatever the
\* pages returned, and once an empty list has been received and the paginator
\* advanced the run sends no further request and goes on to its end.
C2_OffsetsArithmetic ==
    /\ \A i \in 1..Len(requests) :
          /\ requests[i].token = (i - 1) * PAGE_SIZE
          /\ RequestedOffset(requests[i]) = (i - 1) * PAGE_SIZE
    /\ (\E i \in 1..Decided : pages[i] = <<>>) =>
          /\ pc \in {"finalize", "done"}
          /\ Len(requests) = Len(pages)
          /\ paginator.finished

C2_Witness ==
    /\ pc = "done"
    /\ Len(requests) = 3
    /\ RequestedOffset(requests[3]) = 2 * PAGE_SIZE
    /\ Len(pages[1]) = 1

\* The body is not a list under response_key: the key is missing or null.
Malformed(n, body) ==
    LET key == Stream(n).response_key
    IN key \notin DOMAIN body \/ body[key].type # "array"

\* C3: a response without response_key, or with a non-list there, is
\* treated as an empty page: the paginator is advanced to its end, no record
\* is emitted for the page and no error state is reached.
C3_MalformedIsEmptyPage ==
    [][(pc = "records" /\ pending = <<>> /\ Malformed(stream, response)
          /\ pc' # "cancelled")
         => (pc' = "finalize" /\ error' = None /\ emitted' = emitted)]_vars

\* a is not before b, an absent b being before everything.
NotBefore(a, b) == b = None \/ (a # None /\ isoparse(a) >= isoparse(b))

RkOf(n, record) == record[Stream(n).replication_key]

\* The since / since_last_changed value a request carries.
SinceOf(req) ==
    IF "since" \in DOMAIN req.params THEN req.params.since
    ELSE req.params.since_last_changed

\* The replication-key values a raw record carries.
RawRks(n, raw) ==
    IF n = "reports_email_activity"
    THEN {raw.activity[i].timestamp : i \in 1..Len(raw.activity)}
    ELSE {RkOf(n, raw)}

\* The server has filtered every page by the since value of its request.
ServerHonoursSince ==
    /\ stream \in IncrementalStreams
    /\ \A i \in 1..Len(pages) : \A j \in 1..Len(pages[i]) :
       \A t \in RawRks(stream, pages[i][j]) : NotBefore(t, SinceOf(requests[i]))

EmittedNotBeforeStart ==
    \A i \in 1..Len(emitted) : NotBefore(RkOf(stream, emitted[i]), starting)

\* C4 as stated: every record an incremental stream emits has a
\* replication-key value >= the starting value of the run, whatever the
\* server returns.
C4_EmittedNotBeforeStartAnyServer ==
    stream \in IncrementalStreams => EmittedNotBeforeStart

\* C4 as amended: reports_unsubscribes emits no record older than the
\* starting value whatever the server returns; reports_email_activity and
\* lists_members emit none when every record the server returned is not
\* older than the since / since_last_changed value of its request.
C4_EmittedNotBeforeStartFiltered ==
    /\ stream = "reports_unsubscribes" => EmittedNotBeforeStart
    /\ ServerHonoursSince => EmittedNotBeforeStart

C4_Witness ==
    /\ stream = "reports_unsubscribes"
    /\ pc = "done"
    /\ Len(Flatten(pages)) = 2
    /\ Len(emitted) = 1
    /\ ~ServerHonoursSince

\* No stored bookmark becomes less than it was.
BookmarksNotDecreased ==
    \A n \in IncrementalStreams : \A c \in Contexts(n) :
       NotBefore(bookmarks'[n][c], bookmarks[n][c])

\* No value read for a context (the later of start_date and the stored
\* bookmark) becomes less than it was.
ReadValuesNotDecreased ==
    \A n \in IncrementalStreams : \A c \in Contexts(n) :
       NotBefore(starting_value(start_date', bookmarks'[n][c]),
                 starting_value(start_date, bookmarks[n][c]))

\* C5 as stated: over any sequence of runs, the bookmark value read for a
\* context after a run is never less than the value read before it.
C5_BookmarkMonotonicAnyServer == [][ReadValuesNotDecreased]_vars

\* C5 as amended: neither the stored bookmark nor the value read decreases
\* in a run of reports_unsubscribes, nor in a run of reports_email_activity
\* or lists_members whose pages hold no record older than the since value
\* sent.
C5_BookmarkMonotonicFiltered ==
    [][(stream \notin IncrementalStreams \/ stream = "reports_unsubscribes"
           \/ ServerHonoursSince)
          => (BookmarksNotDecreased /\ ReadValuesNotDecreased)]_vars

C5_Witness ==
    /\ stream = "reports_unsubscribes"
    /\ pc = "done"
    /\ runs = 2
    /\ starting = Timestamps[3]
    /\ start_date # starting
    /\ Len(emitted) = 1
    /\ Len(Flatten(pages)) = 2
    /\ bookmarks[stream][context] = Timestamps[3]

\* The records a completed run is to emit for the raw records received:
\* those not older than the starting value (reports_unsubscribes), one per
\* activity item (reports_email_activity), every record (lists_members).
RECURSIVE Expansions(_)
Expansions(raw) ==
    IF raw = <<>> THEN <<>>
    ELSE LET r == Head(raw)
         IN [i \in 1..Len(r.activity) |->
               [email_id |-> r.email_id, email_address |-> r.email_address,
                action |-> r.activity[i].action,
                timestamp |-> r.activity[i].timestamp]]
            \o Expansions(Tail(raw))

Surviving(n, raw, start) ==
    CASE n = "reports_unsubscribes" ->
           LET Kept(r) == isoparse(r.timestamp) >= isoparse(start)
           IN SelectSeq(raw, Kept)
      [] n = "reports_email_activity" -> Expansions(raw)
      [] OTHER -> raw

\* Records compared as emitted: with "" and null taken for the same.
Normalized(records) == [i \in 1..Len(records) |-> post_process(records[i])]

IsMaxRk(n, value, records) ==
    /\ \E i \in 1..Len(records) : RkOf(n, records[i]) = value
    /\ \A i \in 1..Len(records) : NotBefore(value, RkOf(n, records[i]))

\* C6: when a run of an incremental stream completes, the records emitted
\* are the surviving records of its pages, each once and in order, and the
\* stored bookmark of the context is the maximum replication-key value over
\* the records emitted in the run (not the value of the last one).
C6_CompletedRunEmitsSurvivorsAndMax ==
    (pc = "done" /\ stream \in IncrementalStreams) =>
       /\ Normalized(emitted)
             = Normalized(Surviving(stream, Flatten(pages), starting))
       /\ emitted # <<>> =>
             IsMaxRk(stream, bookmarks[stream][context], emitted)

C6_Witness ==
    /\ pc = "done"
    /\ stream = "reports_unsubscribes"
    /\ Len(pages) = 3
    /\ Len(emitted) = 2
    /\ isoparse(emitted[2].timestamp) < isoparse(emitted[1].timestamp)
    /\ bookmarks[stream][context] = emitted[1].timestamp

\* C7: a failed request or a cancellation ends the run with its error and
\* leaves every stored bookmark as it was; a stored bookmark changes only in
\* the finalization of a run whose paginator is finished and whose last page
\* has been retrieved to its end.
C7_FailureKeepsBookmark ==
    [][/\ bookmarks' # bookmarks =>
            (pc = "finalize" /\ pc' = "done" /\ paginator.finished
               /\ pending = <<>>)
       /\ (pc' \in {"failed", "cancelled"} /\ pc # pc') =>
            (error' # None /\ bookmarks' = bookmarks)
       /\ pc \in {"failed", "cancelled"} => (pc' = "request" /\ runs' = runs + 1)
      ]_vars

C7_Witness ==
    /\ pc = "failed"
    /\ error = "ConnectionError"
    /\ stream \in IncrementalStreams
    /\ progress # None
    /\ bookmarks[stream][context] = None

\* The top-level fields of the raw records of a stream.
RawFields(n) == UNION {DOMAIN r : r \in RawRecords(n)}

\* C8: no emitted record of any stream carries "" in a field that was a
\* top-level field of the raw record: every such value is null instead.
C8_NoEmptyStringEmitted ==
    \A i \in 1..Len(emitted) :
       \A k \in (DOMAIN emitted[i] \cap RawFields(stream)) \ {"activity"} :
          emitted[i][k] # ""

\* Raw records of the run that get_records has retrieved and worked off.
Processed ==
    LET flat == Flatten(pages)
    IN SubSeq(flat, 1, Len(flat) - Len(pending))

\* Records emitted for the first j raw records of raw.
RECURSIVE ActivityCount(_, _)
ActivityCount(raw, j) ==
    IF j = 0 THEN 0 ELSE ActivityCount(raw, j - 1) + Len(raw[j].activity)

\* C9: in reports_email_activity a raw record with n activity items gives
\* exactly n emitted records, in list order, the i-th holding the i-th
\* item's fields over the raw record's other fields with "" made null; a
\* record with no item gives none, and no emitted record has 'activity'.
C9_ActivityExpansion ==
    (stream = "reports_email_activity"
       /\ pc \in {"request", "wait", "records", "finalize", "done"}) =>
       LET raw == Processed
       IN /\ Len(emitted) = ActivityCount(raw, Len(raw))
          /\ \A j \in 1..Len(raw) : \A i \in 1..Len(raw[j].activity) :
                LET e == emitted[ActivityCount(raw, j - 1) + i]
                    item == raw[j].activity[i]
                    parent == DOMAIN raw[j] \ {"activity"}
                IN /\ DOMAIN e = parent \cup DOMAIN item
                   /\ \A k \in DOMAIN item : e[k] = item[k]
                   /\ \A k \in parent \ DOMAIN item :
                         e[k] = IF raw[j][k] = "" THEN None ELSE raw[j][k]

C9_Witness ==
    /\ stream = "reports_email_activity"
    /\ pc = "done"
    /\ Len(Processed) = 2
    /\ Processed[1].activity = <<>>
    /\ Len(Processed[2].activity) = 2
    /\ Len(emitted) = 2
    /\ emitted[1].action = "open"
    /\ emitted[2].action = "click"

\* The key a parent stream declares for the context of its children.
DeclaredKey(n) == IF n = "campaigns" THEN "campaign_id" ELSE "list_id"

\* The URL of a child stream's requests for a context, written out.
ExpectedUrl(n, c) ==
    CASE n = "reports_email_activity" ->
           "https://us1.api.mailchimp.com/3.0/reports/" \o c.campaign_id
              \o "/email-activity"
      [] n = "reports_unsubscribes" ->
           "https://us1.api.mailchimp.com/3.0/reports/" \o c.campaign_id
              \o "/unsubscribed"
      [] n = "lists_members" ->
           "https://us1.api.mailchimp.com/3.0/lists/" \o c.list_id \o "/members"

\* C10: the context derived from a parent record holds the one declared
\* key (campaign_id for campaigns, list_id for lists) bound to the record's
\* id and nothing else, and a child's request path is its template with
\* that value in the placeholder's place.
C10_ChildContextAndPath ==
    /\ stream \notin ChildStreams =>
          /\ Len(child_contexts) = Len(emitted)
          /\ \A i \in 1..Len(child_contexts) :
                /\ DOMAIN child_contexts[i] = {DeclaredKey(stream)}
                /\ child_contexts[i][DeclaredKey(stream)] = emitted[i].id
    /\ (stream \in ChildStreams /\ pc # "idle") =>
          /\ DOMAIN context = {DeclaredKey(Stream(stream).parent)}
          /\ \A i \in 1..Len(requests) :
                requests[i].url = ExpectedUrl(stream, context)

C10_Witness ==
    /\ stream = "campaigns"
    /\ Len(child_contexts) = 2
    /\ child_contexts[1] = [campaign_id |-> "a"]
    /\ child_contexts[2] = [campaign_id |-> "b"]

\* The contexts of the runs made of child stream c, in order.
RunsOf(c) == SelectSeq(child_runs, LAMBDA job : job.stream = c)

\* The child streams of each parent stream.
ExpectedChildren(n) ==
    CASE n = "campaigns" -> {"reports_email_activity", "reports_unsubscribes"}
      [] n = "lists" -> {"lists_members"}
      [] OTHER -> {}

\* Every child run due has been made.
SyncComplete == pc = "children" /\ queue = <<>>

\* C11: in a full sync only the child streams of the root stream are run
\* with a context; the i-th run of each child stream has the context derived
\* from the i-th record the parent emitted, and when the sync is complete
\* each child stream has been run as many times as the parent emitted
\* records.
C11_ChildRunPerParentRecord ==
    /\ \A k \in 1..Len(child_runs) :
          child_runs[k].stream \in ExpectedChildren(stream)
    /\ \A c \in ExpectedChildren(stream) :
          LET made == RunsOf(c)
          IN /\ Len(made) <= Len(emitted)
             /\ \A i \in 1..Len(made) :
                   /\ DOMAIN made[i].context = {DeclaredKey(stream)}
                   /\ made[i].context[DeclaredKey(stream)] = emitted[i].id
             /\ SyncComplete => Len(made) = Len(emitted)

C11_Witness ==
    /\ SyncComplete
    /\ stream = "campaigns"
    /\ Len(emitted) = 2
    /\ emitted[1].id # emitted[2].id
    /\ Len(RunsOf("reports_email_activity")) = 2
    /\ Len(RunsOf("reports_unsubscribes")) = 2

\* The place of a replication-key value in the order of values, an absent
\* value being the minimum.
Rank(v) == IF v = None THEN 0 ELSE isoparse(v)

\* The run in hand is in its page loop.
InPageLoop == pc \in {"request", "wait", "records", "finalize"}

\* The starting value of the run in hand is the later of start_date and the
\* bookmark stored for its context, and every request of the run carries it
\* as since / since_last_changed.
StartingIsMax ==
    (stream \in IncrementalStreams /\ InPageLoop) =>
       /\ Rank(starting) >= Rank(start_date)
       /\ Rank(starting) >= Rank(bookmarks[stream][context])
       /\ starting \in {start_date, bookmarks[stream][context]}
       /\ \A i \in 1..Len(requests) : SinceOf(requests[i]) = starting

\* With neither start_date nor bookmark, get_records of reports_unsubscribes
\* emits the record it retrieves and raises nothing.
AbsentStartFiltersNothing ==
    (/\ stream = "reports_unsubscribes"
     /\ pc = "records"
     /\ pending # <<>>
     /\ start_date = None
     /\ bookmarks[stream][context] = None
     /\ pc' # "cancelled")
    => (/\ error' = None
        /\ pc' # "error"
        /\ Len(emitted') = Len(emitted) + 1)

\* C12: the starting value used for the since / since_last_changed
\* parameter and for the filter of reports_unsubscribes is the later of
\* start_date and the stored bookmark, an absent one being the minimum; with
\* both absent a reports_unsubscribes run filters out no record and reaches
\* no error.
C12_AbsentStartIsMinimum ==
    [][StartingIsMax /\ AbsentStartFiltersNothing]_vars

\* What a run alone makes of its own inputs: its offsets 0, 1000, ... and
\* its paginator in step with its own requests, its starting value from the
\* bookmark of its own context, its emitted records the survivors of its
\* own pages, and the bookmark of its context what it was before the run
\* until the run is complete and the maximum over its records after.
RunAsAlone(run) ==
    LET flat == Flatten(run.pages)
        processed == SubSeq(flat, 1, Len(flat) - Len(run.pending))
        before == ParBookmarks(stream)[stream][run.context]
        now == bookmarks[stream][run.context]
        looping == run.pc \in {"request", "wait", "records", "finalize"}
    IN /\ \A i \in 1..Len(run.requests) :
             /\ run.requests[i].token = (i - 1) * PAGE_SIZE
             /\ RequestedOffset(run.requests[i]) = (i - 1) * PAGE_SIZE
             /\ run.requests[i].url = ExpectedUrl(stream, run.context)
             /\ SinceOf(run.requests[i]) = run.starting
       /\ run.pc = "request" =>
             run.paginator.value = Len(run.requests) * PAGE_SIZE
       /\ run.pc \in {"wait", "records"} =>
             run.paginator.value = (Len(run.requests) - 1) * PAGE_SIZE
       /\ looping =>
             /\ Rank(run.starting) >= Rank(start_date)
             /\ Rank(run.starting) >= Rank(before)
             /\ run.starting \in {start_date, before}
       /\ (looping \/ run.pc = "done") =>
             Normalized(run.emitted)
                = Normalized(Surviving(stream, processed, run.starting))
       /\ run.pc # "done" => now = before
       /\ run.pc = "done" =>
             IF run.emitted = <<>> THEN now = before
             ELSE IsMaxRk(stream, now, run.emitted)

\* C13: however the page-loop steps of two runs of a stream for two
\* contexts are interleaved, each run requests, emits and stores what it
\* does alone: neither its offsets, nor its starting value, nor its records,
\* nor the bookmark of its context depend on the steps of the other run.
C13_InterleavedRunsAsAlone ==
    other # <<>> =>
       /\ context # other.context
       /\ RunAsAlone(Locals)
       /\ RunAsAlone(other)

C13_Witness ==
    /\ other # <<>>
    /\ stream = "reports_unsubscribes"
    /\ pc = "done"
    /\ other.pc = "done"
    /\ context = ContextOf(stream, "b")
    /\ Len(emitted) = 1
    /\ Len(other.emitted) = 1
    /\ bookmarks[stream][context] = Timestamps[2]
    /\ bookmarks[stream][other.context] = Timestamps[3]

\* The primary keys of stream n a record of its responses is to carry: all
\* but the keys the context of the run binds.
OwnKeys(n) ==
    {Stream(n).primary_keys[i] : i \in 1..Len(Stream(n).primary_keys)}
       \ {"campaign_id", "list_id"}

\* The raw record, or for reports_email_activity one of its expanded
\* records, lacks a primary key.
LacksKey(n, raw) ==
    IF n = "reports_email_activity"
    THEN \E i \in 1..Len(raw.activity) :
            ~(OwnKeys(n) \subseteq ((DOMAIN raw \ {"activity"})
                                      \cup DOMAIN raw.activity[i]))
    ELSE ~(OwnKeys(n) \subseteq DOMAIN raw)

\* C14: every emitted record carries every primary key of its stream, and
\* a record that lacks one ends the run in an error when get_records comes
\* to it: it is neither emitted without the key nor passed over.
C14_PrimaryKeysOrFatal ==
    [][/\ \A i \in 1..Len(emitted') : OwnKeys(stream) \subseteq DOMAIN emitted'[i]
       /\ (pc = "records" /\ pending # <<>> /\ LacksKey(stream, Head(pending))
             /\ pc' # "cancelled") => pc' = "error"
      ]_vars

\* C15: post_process keeps the key set of the record, turns each top-level
\* "" into null and leaves every other value as it is, a list and what it
\* holds included; applied again, it returns what it returned the first
\* time.
C15_PostProcessIdempotent ==
    \A i \in 1..Len(applied) :
       /\ DOMAIN applied[i] = DOMAIN row
       /\ \A k \in DOMAIN row :
             IF k # "activity" /\ row[k] = ""
             THEN applied[i][k] = None
             ELSE applied[i][k] = row[k]
       /\ applied[i] = applied[1]

C15_Witness ==
    /\ Len(applied) = 2
    /\ DOMAIN row = {"id", "reason", "activity"}
    /\ row.id = ""
    /\ row.reason = "x"
    /\ applied[1].id = None
    /\ applied[2].id = None
    /\ applied[2].reason = "x"
    /\ applied[2].activity = <<[action |-> ""]>>

\* get_records of reports_unsubscribes comes to the next record of the
\* page: the record is emitted when its timestamp is not below the starting
\* value (an absent one being the minimum), and otherwise neither emitted
\* nor counted for the bookmark.
EmitsIffNotBeforeStart ==
    (stream = "reports_unsubscribes" /\ pc = "records" /\ pending # <<>>
       /\ pc' # "cancelled") =>
       LET record == Head(pending)
       IN IF Rank(record.timestamp) >= Rank(starting)
          THEN /\ Len(emitted') = Len(emitted) + 1
               /\ emitted'[Len(emitted')].email_id = record.email_id
               /\ emitted'[Len(emitted')].timestamp = record.timestamp
          ELSE /\ emitted' = emitted
               /\ progress' = progress
               /\ bookmarks' = bookmarks
               /\ pc' = pc

\* C16: a record of a reports_unsubscribes page is emitted if and only if
\* its timestamp is >= the starting value of the context; a record below it
\* is not emitted and leaves the bookmark and its candidate alone, on
\* whatever page and at whatever place it stands.
C16_UnsortedFilter == [][EmitsIffNotBeforeStart]_vars

\* C18: every request carries count = 1000; it carries offset if and only
\* if the page token it is made for is not 0, and then offset is that token;
\* the first request of a run carries no offset.
C18_CountAndOffsetParams ==
    \A i \in 1..Len(requests) :
       LET params == requests[i].params
       IN /\ "count" \in DOMAIN params
          /\ params.count = 1000
          /\ "offset" \in DOMAIN params <=> requests[i].token # 0
          /\ "offset" \in DOMAIN params => params.offset = requests[i].token
          /\ i = 1 => "offset" \notin DOMAIN params

C18_Witness ==
    /\ Len(requests) = 2
    /\ "offset" \notin DOMAIN requests[1].params
    /\ requests[1].params.count = 1000
    /\ requests[2].params.offset = 1000
    /\ requests[2].params.count = 1000

\* No record of page i of the run is emitted: all are older than the
\* starting value (reports_unsubscribes) or have no activity
\* (reports_email_activity).
NothingEmittedOf(i) == Surviving(stream, pages[i], starting) = <<>>

\* C19: a page of reports_unsubscribes or reports_email_activity that
\* holds records of which none is emitted is followed by the request of the
\* next page, at the offset 1000 further on.
C19_ContinueOnRawCount ==
    stream \in {"reports_unsubscribes", "reports_email_activity"} =>
       \A i \in 1..Decided :
          (pages[i] # <<>> /\ NothingEmittedOf(i)) =>
             /\ Continued(i)
             /\ i < Len(requests) =>
                   RequestedOffset(requests[i + 1])
                      = RequestedOffset(requests[i]) + 1000

\* A completed run whose first page gave nothing to emit and whose second
\* page gave a record.
LaterPageNotLost ==
    /\ pc = "done"
    /\ Len(pages) = 3
    /\ pages[1] # <<>>
    /\ NothingEmittedOf(1)
    /\ Len(emitted) = 1
    /\ RequestedOffset(requests[2]) = 1000

C19_Witness ==
    /\ stream = "reports_unsubscribes"
    /\ LaterPageNotLost
    /\ emitted[1].timestamp = pages[2][1].timestamp

\* The name of the parameter that carries the starting value.
SinceKey(n) == IF n = "lists_members" THEN "since_last_changed" ELSE "since"

\* C20: in a run of an incremental stream every request carries, as since
\* (since_last_changed for lists_members), the starting value resolved for
\* the context when the run started, the later of start_date and the stored
\* bookmark: the same value on every page, whatever has been emitted.
C20_SinceFixedForRun ==
    stream \in IncrementalStreams =>
       /\ \A i \in 1..Len(requests) :
             /\ DOMAIN requests[i].params \cap {"since", "since_last_changed"}
                   = {SinceKey(stream)}
             /\ requests[i].params[SinceKey(stream)] = starting
             /\ requests[i].params[SinceKey(stream)]
                   = requests[1].params[SinceKey(stream)]
       /\ InPageLoop =>
             /\ Rank(starting) >= Rank(start_date)
             /\ Rank(starting) >= Rank(bookmarks[stream][context])
             /\ starting \in {start_date, bookmarks[stream][context]}

C20_Witness ==
    /\ stream = "lists_members"
    /\ Len(requests) = 2
    /\ starting = Timestamps[2]
    /\ Len(emitted) = 1
    /\ emitted[1].last_changed = Timestamps[3]
    /\ progress = Timestamps[3]
    /\ requests[2].params.since_last_changed = Timestamps[2]
    /\ requests[2].params.offset = 1000

====
